---- MODULE Spec2Model ----
(***************************************************************************)
(* A model of the reference interpreter of crates/interpreters/src/lib.rs: *)
(* the value model, the Environment, the place resolver (eval_place), the  *)
(* expression and statement evaluators (eval_expr, eval_stmt), the block   *)
(* driver (eval_block) and the entry point interpret.                      *)
(***************************************************************************)
EXTENDS Integers, Sequences, FiniteSets, TLC

VARIABLES env, block, pc, status, res, entry, ret, env0, out

vars == <<env, block, pc, status, res, entry, ret, env0, out>>

----------------------------------------------------------------------------
(* Bounds of the model. *)

\* Longest chain of dereference operators in a generated expression.
MaxDeref == 2

\* Longest block generated from the core statements.
MaxBlockLen == 2

\* Names and integer literals the generated programs draw from.
Places == {"a", "b", "c"}

Lits == {1, 2}

----------------------------------------------------------------------------
(* Value: lib.rs 10-16. *)

Unit == [tag |-> "Unit"]

Lit(l) == [tag |-> "Lit", lit |-> l]

Ref(p) == [tag |-> "Ref", place |-> p]

Undefined == [tag |-> "Undefined"]

Values == {Unit, Undefined} \cup {Lit(l) : l \in Lits} \cup {Ref(p) : p \in Places}

----------------------------------------------------------------------------
(* The syntax tree handed over by the parser (syn): the shapes the         *)
(* evaluator matches on, and representatives of the shapes it does not.    *)

\* path.get_ident() of a path that is not a single identifier (a::b).
NoIdent == "<none>"

ExprLit(l) == [tag |-> "Lit", lit |-> l]

ExprPath(x) == [tag |-> "Path", ident |-> x]

ExprReference(e) == [tag |-> "Reference", expr |-> e]

ExprUnary(o, e) == [tag |-> "Unary", op |-> o, expr |-> e]

ExprDeref(e) == ExprUnary("Deref", e)

ExprAssign(l, r) == [tag |-> "Assign", left |-> l, right |-> r]

\* Any other expression shape (a call, a binary operation, ...).
ExprOther == [tag |-> "Other"]

PatIdent(x) == [tag |-> "Ident", ident |-> x]

\* Any other pattern (a tuple, a typed pattern, ...).
PatOther == [tag |-> "Other"]

NoInit == [tag |-> "None"]

Local(p, i) == [tag |-> "Local", pat |-> p, init |-> i]

Semi(e) == [tag |-> "Semi", expr |-> e]

\* Any other statement shape (an item, a trailing expression).
StmtOther == [tag |-> "Other"]

----------------------------------------------------------------------------
(* Results: anyhow::Result, and the panic of unimplemented!() / unwrap().  *)

\* "Cannot find place: {place}" (lib.rs 40)
NotFound(p) == [type |-> "NotFound", place |-> p]

\* "Attempting to read undefined place: {place}" (lib.rs 42)
UndefinedRead(p) == [type |-> "UndefinedRead", place |-> p]

\* "Cannot deref value: {v}" (lib.rs 88)
TypeMismatch(v) == [type |-> "TypeMismatch", value |-> v]

Ok(v) == [kind |-> "Ok", val |-> v]

Err(e) == [kind |-> "Err", err |-> e]

\* Ok(()) of eval_stmt and eval_block.
OkDone == [kind |-> "Ok"]

Panic == [kind |-> "Panic"]

----------------------------------------------------------------------------
(* Environment: lib.rs 33-50.  A HashMap<Place, Value>: a function whose   *)
(* domain is the set of bound places.                                      *)

EmptyEnv == [p \in {} |-> Unit]

\* lookup that hands out the sentinel like any other value.
lookup_sentinel(e, place) ==
    IF place \notin DOMAIN e THEN Err(NotFound(place)) ELSE Ok(e[place])

lookup(e, place) ==
    IF place \notin DOMAIN e THEN Err(NotFound(place))
    ELSE IF e[place] = Undefined THEN Err(UndefinedRead(place))
    ELSE Ok(e[place])

\* insert that keeps the binding of a place already bound.
insert_keep(e, place, value) ==
    [p \in (DOMAIN e) \cup {place} |-> IF p \in DOMAIN e THEN e[p] ELSE value]

insert(e, place, value) ==
    [p \in (DOMAIN e) \cup {place} |-> IF p = place THEN value ELSE e[p]]

----------------------------------------------------------------------------
(* Display: lib.rs 18-31 and 52-62.  The text written is kept as the       *)
(* sequence of its lines, a line as the pieces write! puts out in order:   *)
(* the name, the separator, the text of the value, the line end.           *)

\* The text of an integer literal: i.token().  Any other literal is todo!().
fmt_lit(l) == IF l \in Int THEN Ok(ToString(l)) ELSE Panic

\* impl Display for Value
fmt_value(v) ==
    IF v.tag = "Unit" THEN Ok("()")
    ELSE IF v.tag = "Lit" THEN fmt_lit(v.lit)
    ELSE IF v.tag = "Ref" THEN Ok("&" \o v.place)
    ELSE Ok("undefined")

\* Ord for Ident is the order of the names as strings; the names of the
\* model in that order.
IdentOrder == <<"a", "b", "c">>

IdentRank(x) == CHOOSE i \in 1..Len(IdentOrder) : IdentOrder[i] = x

\* The iteration orders of a HashMap with the keys of e: any order.
IterOrders(e) ==
    LET n == Cardinality(DOMAIN e) IN
    {f \in [1..n -> DOMAIN e] : \A i \in 1..n, j \in 1..n : f[i] = f[j] => i = j}

\* The sorted sequence s with key x put in after the keys not above it.
RECURSIVE insert_sorted(_, _)
insert_sorted(s, x) ==
    IF s = <<>> THEN <<x>>
    ELSE IF IdentRank(s[Len(s)]) <= IdentRank(x) THEN Append(s, x)
    ELSE Append(insert_sorted(SubSeq(s, 1, Len(s) - 1), x), s[Len(s)])

\* entries.sort_by_key(|(k, _)| k.clone()), on the keys.
RECURSIVE sort_by_key(_)
\* The entries left in the order the map iterates them.
sort_by_key_skip(s) == s

sort_by_key(s) ==
    IF s = <<>> THEN <<>>
    ELSE insert_sorted(sort_by_key(SubSeq(s, 1, Len(s) - 1)), s[Len(s)])

\* The literal text between the two {} of the format string, as the source
\* file holds it: the characters U+00E2 U+2020 U+00A6 between two spaces,
\* given by their code points.
Separator == <<32, 226, 8224, 166, 32>>

\* One whole line: "{k}", the separator, "{v}", "\n".
Line(k, text) == [name |-> k, sep |-> Separator, value |-> text, end |-> "\n"]

\* The start of a line whose value panicked in fmt: "{k}" and the separator.
LineStart(k) == [name |-> k, sep |-> Separator]

\* A panic in the middle of writing: `val` is what was written before it.
Aborted(w) == [kind |-> "Panic", val |-> w]

\* write!(f, "{}<Separator>{}\n", k, v) for each entry of ks, until one panics: the
\* name and the separator of the failing entry are written already.
RECURSIVE write_entries(_, _)
write_entries(e, ks) ==
    IF ks = <<>> THEN Ok(<<>>)
    ELSE LET rest == write_entries(e, SubSeq(ks, 1, Len(ks) - 1))
             v == fmt_value(e[ks[Len(ks)]])
         IN IF rest.kind # "Ok" THEN rest
            ELSE IF v.kind # "Ok" THEN Aborted(Append(rest.val, LineStart(ks[Len(ks)])))
            ELSE Ok(Append(rest.val, Line(ks[Len(ks)], v.val)))

\* impl Display for Environment, the map iterating in order `iter`.
fmt_env(e, iter) == write_entries(e, sort_by_key(iter))

----------------------------------------------------------------------------
(* ReferenceModel: lib.rs 75-138. *)

\* path.get_ident().unwrap()
get_ident_unwrap(expr) ==
    IF expr.ident = NoIdent THEN Panic ELSE Ok(expr.ident)

RECURSIVE eval_place(_, _)
\* eval_place that resolves *x to x itself: the reference is not followed.
eval_place_nohop(expr, e) ==
    IF expr.tag = "Path" THEN get_ident_unwrap(expr)
    ELSE IF expr.tag = "Unary" /\ expr.op = "Deref" THEN
        LET place == eval_place(expr.expr, e) IN
        IF place.kind # "Ok" THEN place
        ELSE LET v == lookup(e, place.val) IN
             IF v.kind # "Ok" THEN v
             ELSE IF v.val.tag = "Ref" THEN place
             ELSE Err(TypeMismatch(v.val))
    ELSE Panic

\* eval_place that takes *x for x when x holds no reference.
eval_place_lenient(expr, e) ==
    IF expr.tag = "Path" THEN get_ident_unwrap(expr)
    ELSE IF expr.tag = "Unary" /\ expr.op = "Deref" THEN
        LET place == eval_place(expr.expr, e) IN
        IF place.kind # "Ok" THEN place
        ELSE LET v == lookup(e, place.val) IN
             IF v.kind # "Ok" THEN v
             ELSE IF v.val.tag = "Ref" THEN Ok(v.val.place)
             ELSE place
    ELSE Panic

\* eval_place that follows a second reference when the referent holds one.
eval_place_twohop(expr, e) ==
    IF expr.tag = "Path" THEN get_ident_unwrap(expr)
    ELSE IF expr.tag = "Unary" /\ expr.op = "Deref" THEN
        LET place == eval_place(expr.expr, e) IN
        IF place.kind # "Ok" THEN place
        ELSE LET v == lookup(e, place.val) IN
             IF v.kind # "Ok" THEN v
             ELSE IF v.val.tag = "Ref" THEN
                 LET w == lookup(e, v.val.place) IN
                 IF w.kind = "Ok" /\ w.val.tag = "Ref" THEN Ok(w.val.place)
                 ELSE Ok(v.val.place)
             ELSE Err(TypeMismatch(v.val))
    ELSE Panic

\* eval_place that only resolves to a place that is bound.
eval_place_declared(expr, e) ==
    IF expr.tag = "Path" THEN
        LET id == get_ident_unwrap(expr) IN
        IF id.kind # "Ok" THEN id
        ELSE IF id.val \in DOMAIN e THEN id ELSE Err(NotFound(id.val))
    ELSE IF expr.tag = "Unary" /\ expr.op = "Deref" THEN
        LET place == eval_place(expr.expr, e) IN
        IF place.kind # "Ok" THEN place
        ELSE LET v == lookup(e, place.val) IN
             IF v.kind # "Ok" THEN v
             ELSE IF v.val.tag = "Ref" THEN
                 IF v.val.place \in DOMAIN e THEN Ok(v.val.place)
                 ELSE Err(NotFound(v.val.place))
             ELSE Err(TypeMismatch(v.val))
    ELSE Panic

\* eval_place that takes the entry of the map, or the sentinel when there is
\* none, and reports whatever is not a reference as a value it cannot deref.
eval_place_mismatch_first(expr, e) ==
    IF expr.tag = "Path" THEN get_ident_unwrap(expr)
    ELSE IF expr.tag = "Unary" /\ expr.op = "Deref" THEN
        LET place == eval_place(expr.expr, e) IN
        IF place.kind # "Ok" THEN place
        ELSE LET v == IF place.val \in DOMAIN e THEN e[place.val] ELSE Undefined IN
             IF v.tag = "Ref" THEN Ok(v.place)
             ELSE Err(TypeMismatch(v))
    ELSE Panic

\* eval_place that reads a bare name before resolving to it.
eval_place_reads(expr, e) ==
    IF expr.tag = "Path" THEN
        LET id == get_ident_unwrap(expr) IN
        IF id.kind # "Ok" THEN id
        ELSE LET v == lookup(e, id.val) IN IF v.kind # "Ok" THEN v ELSE id
    ELSE IF expr.tag = "Unary" /\ expr.op = "Deref" THEN
        LET place == eval_place(expr.expr, e) IN
        IF place.kind # "Ok" THEN place
        ELSE LET v == lookup(e, place.val) IN
             IF v.kind # "Ok" THEN v
             ELSE IF v.val.tag = "Ref" THEN Ok(v.val.place)
             ELSE Err(TypeMismatch(v.val))
    ELSE Panic

eval_place(expr, e) ==
    IF expr.tag = "Path" THEN get_ident_unwrap(expr)
    ELSE IF expr.tag = "Unary" /\ expr.op = "Deref" THEN
        LET place == eval_place(expr.expr, e) IN
        IF place.kind # "Ok" THEN place
        ELSE LET v == lookup(e, place.val) IN
             IF v.kind # "Ok" THEN v
             ELSE IF v.val.tag = "Ref" THEN Ok(v.val.place)
             ELSE Err(TypeMismatch(v.val))
    ELSE Panic

\* The outcome of eval_expr: the Result and the environment it leaves.
Out(r, e) == [r |-> r, env |-> e]

RECURSIVE eval_expr(_, _)
\* eval_expr with a reference-of that copies the referent's current value.
eval_expr_snapshot(expr, e) ==
    IF expr.tag = "Lit" THEN Out(Ok(Lit(expr.lit)), e)
    ELSE IF expr.tag = "Path" THEN
        LET id == get_ident_unwrap(expr) IN
        IF id.kind # "Ok" THEN Out(id, e) ELSE Out(lookup(e, id.val), e)
    ELSE IF expr.tag = "Reference" THEN
        IF expr.expr.tag = "Path" THEN
            LET id == get_ident_unwrap(expr.expr) IN
            IF id.kind # "Ok" THEN Out(id, e) ELSE Out(lookup(e, id.val), e)
        ELSE Out(Panic, e)
    ELSE IF expr.tag = "Unary" /\ expr.op = "Deref" THEN
        LET place == eval_place(expr, e) IN
        IF place.kind # "Ok" THEN Out(place, e)
        ELSE Out(lookup(e, place.val), e)
    ELSE IF expr.tag = "Assign" THEN
        LET l == eval_place(expr.left, e) IN
        IF l.kind # "Ok" THEN Out(l, e)
        ELSE LET r == eval_expr(expr.right, e) IN
             IF r.r.kind # "Ok" THEN r
             ELSE Out(Ok(Unit), insert(r.env, l.val, r.r.val))
    ELSE Out(Panic, e)

\* eval_expr with a reference-of that requires its operand to be readable.
eval_expr_checked_ref(expr, e) ==
    IF expr.tag = "Lit" THEN Out(Ok(Lit(expr.lit)), e)
    ELSE IF expr.tag = "Path" THEN
        LET id == get_ident_unwrap(expr) IN
        IF id.kind # "Ok" THEN Out(id, e) ELSE Out(lookup(e, id.val), e)
    ELSE IF expr.tag = "Reference" THEN
        IF expr.expr.tag = "Path" THEN
            LET id == get_ident_unwrap(expr.expr) IN
            IF id.kind # "Ok" THEN Out(id, e)
            ELSE LET v == lookup(e, id.val) IN
                 IF v.kind # "Ok" THEN Out(v, e) ELSE Out(Ok(Ref(id.val)), e)
        ELSE Out(Panic, e)
    ELSE IF expr.tag = "Unary" /\ expr.op = "Deref" THEN
        LET place == eval_place(expr, e) IN
        IF place.kind # "Ok" THEN Out(place, e)
        ELSE Out(lookup(e, place.val), e)
    ELSE IF expr.tag = "Assign" THEN
        LET l == eval_place(expr.left, e) IN
        IF l.kind # "Ok" THEN Out(l, e)
        ELSE LET r == eval_expr(expr.right, e) IN
             IF r.r.kind # "Ok" THEN r
             ELSE Out(Ok(Unit), insert(r.env, l.val, r.r.val))
    ELSE Out(Panic, e)

\* eval_expr that evaluates the right-hand side of an assignment before it
\* resolves the target.
eval_expr_rhs_first(expr, e) ==
    IF expr.tag = "Lit" THEN Out(Ok(Lit(expr.lit)), e)
    ELSE IF expr.tag = "Path" THEN
        LET id == get_ident_unwrap(expr) IN
        IF id.kind # "Ok" THEN Out(id, e) ELSE Out(lookup(e, id.val), e)
    ELSE IF expr.tag = "Reference" THEN
        IF expr.expr.tag = "Path" THEN
            LET id == get_ident_unwrap(expr.expr) IN
            IF id.kind # "Ok" THEN Out(id, e) ELSE Out(Ok(Ref(id.val)), e)
        ELSE Out(Panic, e)
    ELSE IF expr.tag = "Unary" /\ expr.op = "Deref" THEN
        LET place == eval_place(expr, e) IN
        IF place.kind # "Ok" THEN Out(place, e)
        ELSE Out(lookup(e, place.val), e)
    ELSE IF expr.tag = "Assign" THEN
        LET r == eval_expr(expr.right, e) IN
        IF r.r.kind # "Ok" THEN r
        ELSE LET l == eval_place(expr.left, r.env) IN
             IF l.kind # "Ok" THEN Out(l, r.env)
             ELSE Out(Ok(Unit), insert(r.env, l.val, r.r.val))
    ELSE Out(Panic, e)

eval_expr(expr, e) ==
    IF expr.tag = "Lit" THEN Out(Ok(Lit(expr.lit)), e)
    ELSE IF expr.tag = "Path" THEN
        LET id == get_ident_unwrap(expr) IN
        IF id.kind # "Ok" THEN Out(id, e) ELSE Out(lookup(e, id.val), e)
    ELSE IF expr.tag = "Reference" THEN
        IF expr.expr.tag = "Path" THEN
            LET id == get_ident_unwrap(expr.expr) IN
            IF id.kind # "Ok" THEN Out(id, e) ELSE Out(Ok(Ref(id.val)), e)
        ELSE Out(Panic, e)
    ELSE IF expr.tag = "Unary" /\ expr.op = "Deref" THEN
        LET place == eval_place(expr, e) IN
        IF place.kind # "Ok" THEN Out(place, e)
        ELSE Out(lookup(e, place.val), e)
    ELSE IF expr.tag = "Assign" THEN
        LET l == eval_place(expr.left, e) IN
        IF l.kind # "Ok" THEN Out(l, e)
        ELSE LET r == eval_expr(expr.right, e) IN
             IF r.r.kind # "Ok" THEN r
             ELSE Out(Ok(Unit), insert(r.env, l.val, r.r.val))
    ELSE Out(Panic, e)

\* eval_stmt that binds Unit, not the sentinel, for let x;
eval_stmt_default_init(stmt, e) ==
    IF stmt.tag = "Local" THEN
        IF stmt.pat.tag # "Ident" THEN Out(Panic, e)
        ELSE LET lhs == stmt.pat.ident IN
             IF stmt.init = NoInit THEN Out(OkDone, insert(e, lhs, Unit))
             ELSE LET v == eval_expr(stmt.init, e) IN
                  IF v.r.kind # "Ok" THEN v
                  ELSE Out(OkDone, insert(v.env, lhs, v.r.val))
    ELSE IF stmt.tag = "Semi" THEN
        LET v == eval_expr(stmt.expr, e) IN
        IF v.r.kind # "Ok" THEN v ELSE Out(OkDone, v.env)
    ELSE Out(Panic, e)

\* eval_stmt that declares the name of a let before it evaluates the
\* initialiser, so a failing initialiser leaves the name declared.
eval_stmt_declare_first(stmt, e) ==
    IF stmt.tag = "Local" THEN
        IF stmt.pat.tag # "Ident" THEN Out(Panic, e)
        ELSE LET lhs == stmt.pat.ident IN
             IF stmt.init = NoInit THEN Out(OkDone, insert(e, lhs, Undefined))
             ELSE LET v == eval_expr(stmt.init, e) IN
                  IF v.r.kind # "Ok" THEN Out(v.r, insert(v.env, lhs, Undefined))
                  ELSE Out(OkDone, insert(v.env, lhs, v.r.val))
    ELSE IF stmt.tag = "Semi" THEN
        LET v == eval_expr(stmt.expr, e) IN
        IF v.r.kind # "Ok" THEN v ELSE Out(OkDone, v.env)
    ELSE Out(Panic, e)

\* eval_stmt that takes let x; as removing the binding of x.
eval_stmt_unbind(stmt, e) ==
    IF stmt.tag = "Local" THEN
        IF stmt.pat.tag # "Ident" THEN Out(Panic, e)
        ELSE LET lhs == stmt.pat.ident IN
             IF stmt.init = NoInit
             THEN Out(OkDone, [y \in DOMAIN e \ {lhs} |-> e[y]])
             ELSE LET v == eval_expr(stmt.init, e) IN
                  IF v.r.kind # "Ok" THEN v
                  ELSE Out(OkDone, insert(v.env, lhs, v.r.val))
    ELSE IF stmt.tag = "Semi" THEN
        LET v == eval_expr(stmt.expr, e) IN
        IF v.r.kind # "Ok" THEN v ELSE Out(OkDone, v.env)
    ELSE Out(Panic, e)

eval_stmt(stmt, e) ==
    IF stmt.tag = "Local" THEN
        IF stmt.pat.tag # "Ident" THEN Out(Panic, e)
        ELSE LET lhs == stmt.pat.ident IN
             IF stmt.init = NoInit THEN Out(OkDone, insert(e, lhs, Undefined))
             ELSE LET v == eval_expr(stmt.init, e) IN
                  IF v.r.kind # "Ok" THEN v
                  ELSE Out(OkDone, insert(v.env, lhs, v.r.val))
    ELSE IF stmt.tag = "Semi" THEN
        LET v == eval_expr(stmt.expr, e) IN
        IF v.r.kind # "Ok" THEN v ELSE Out(OkDone, v.env)
    ELSE Out(Panic, e)

----------------------------------------------------------------------------
(* The number of env.lookup calls an evaluation makes: one for each call   *)
(* site the control flow of eval_place and eval_expr reaches.              *)

RECURSIVE lookups_place(_, _)
\* The lookups of an eval_place that follows the stored references until it
\* meets a value that is no reference, or has gone round the whole map.
lookups_place_chase(expr, e) ==
    IF expr.tag = "Unary" /\ expr.op = "Deref" THEN
        LET place == eval_place(expr.expr, e) IN
        lookups_place(expr.expr, e)
            + (IF place.kind # "Ok" THEN 0
               ELSE LET v == lookup(e, place.val) IN
                    IF v.kind = "Ok" /\ v.val.tag = "Ref" THEN 1 + Cardinality(DOMAIN e)
                    ELSE 1)
    ELSE 0

lookups_place(expr, e) ==
    IF expr.tag = "Unary" /\ expr.op = "Deref" THEN
        lookups_place(expr.expr, e)
            + (IF eval_place(expr.expr, e).kind = "Ok" THEN 1 ELSE 0)
    ELSE 0

RECURSIVE lookups_expr(_, _)
lookups_expr(expr, e) ==
    IF expr.tag = "Path" THEN
        IF get_ident_unwrap(expr).kind = "Ok" THEN 1 ELSE 0
    ELSE IF expr.tag = "Unary" /\ expr.op = "Deref" THEN
        lookups_place(expr, e) + (IF eval_place(expr, e).kind = "Ok" THEN 1 ELSE 0)
    ELSE IF expr.tag = "Assign" THEN
        lookups_place(expr.left, e)
            + (IF eval_place(expr.left, e).kind = "Ok" THEN lookups_expr(expr.right, e) ELSE 0)
    ELSE 0

lookups_stmt(stmt, e) ==
    IF stmt.tag = "Local" THEN
        IF stmt.pat.tag = "Ident" /\ stmt.init # NoInit THEN lookups_expr(stmt.init, e) ELSE 0
    ELSE IF stmt.tag = "Semi" THEN lookups_expr(stmt.expr, e)
    ELSE 0

----------------------------------------------------------------------------
(* The programs the model runs.  Every statement is run alone as a         *)
(* one-statement block; blocks of several statements are generated from a  *)
(* few core statements, and the programs of the test and of the            *)
(* specification's examples are run as written.                            *)

PathExprs == {ExprPath(x) : x \in Places}

RECURSIVE DerefChains(_)
DerefChains(n) ==
    IF n = 0 THEN PathExprs
    ELSE LET prev == DerefChains(n - 1) IN prev \cup {ExprDeref(x) : x \in prev}

\* x, *x, **x, ...
PlaceExprs == DerefChains(MaxDeref)

\* 1, 2, &x
LeafExprs == {ExprLit(l) : l \in Lits} \cup {ExprReference(x) : x \in PathExprs}

\* x = 1, *x = &y, **x = y, ...
AssignExprs == {ExprAssign(l, r) : l \in PlaceExprs, r \in LeafExprs \cup PathExprs}

\* *x = y = &z, *x = y = z
NestedAssignExprs ==
    {ExprAssign(ExprDeref(l), ExprAssign(m, r)) :
        l \in PathExprs, m \in PathExprs,
        r \in {ExprReference(x) : x \in PathExprs} \cup PathExprs}

\* One representative of each shape outside the supported subset:
\* f(), -a, &1, &*a, *1, *&a, a::b, &a::b, 1 = 2, a = f().
UnsupportedExprs ==
    { ExprOther,
      ExprUnary("Neg", ExprPath("a")),
      ExprReference(ExprLit(1)),
      ExprReference(ExprDeref(ExprPath("a"))),
      ExprDeref(ExprLit(1)),
      ExprDeref(ExprReference(ExprPath("a"))),
      ExprPath(NoIdent),
      ExprReference(ExprPath(NoIdent)),
      ExprAssign(ExprLit(1), ExprLit(2)),
      ExprAssign(ExprPath("a"), ExprOther) }

Stmts ==
    {Local(PatIdent(x), i) : x \in Places, i \in {NoInit} \cup LeafExprs \cup PlaceExprs}
    \cup {Semi(x) : x \in AssignExprs \cup NestedAssignExprs \cup UnsupportedExprs}
    \cup {Local(PatIdent("a"), x) : x \in UnsupportedExprs}
    \cup {Local(PatOther, i) : i \in {NoInit, ExprLit(1)}}
    \cup {StmtOther}

\* let a = 1;  let b = &a;  let c = *b;  *b = 2;  and an unsupported item.
CoreStmts ==
    { Local(PatIdent("a"), ExprLit(1)),
      Local(PatIdent("b"), ExprReference(ExprPath("a"))),
      Local(PatIdent("c"), ExprDeref(ExprPath("b"))),
      Semi(ExprAssign(ExprDeref(ExprPath("b")), ExprLit(2))),
      StmtOther }

RECURSIVE SeqsOf(_, _)
SeqsOf(S, n) ==
    IF n = 0 THEN {<<>>}
    ELSE LET shorter == SeqsOf(S, n - 1) IN
         shorter \cup {Append(q, s) : q \in {t \in shorter : Len(t) = n - 1}, s \in S}

\* { let a = 1; let mut b; b = &a; let c = *b; }  (test::ok)
TestOkBlock ==
    << Local(PatIdent("a"), ExprLit(1)),
       Local(PatIdent("b"), NoInit),
       Semi(ExprAssign(ExprPath("b"), ExprReference(ExprPath("a")))),
       Local(PatIdent("c"), ExprDeref(ExprPath("b"))) >>

\* { let a = 1; let b = &a; a = 2; let c = *b; }
LiveRereadBlock ==
    << Local(PatIdent("a"), ExprLit(1)),
       Local(PatIdent("b"), ExprReference(ExprPath("a"))),
       Semi(ExprAssign(ExprPath("a"), ExprLit(2))),
       Local(PatIdent("c"), ExprDeref(ExprPath("b"))) >>

\* { let a = 1; let a = 2; let c = a; }
RedeclareBlock ==
    << Local(PatIdent("a"), ExprLit(1)),
       Local(PatIdent("a"), ExprLit(2)),
       Local(PatIdent("c"), ExprPath("a")) >>

\* { let a = 1; let a; let c = a; }
RedeclareUndefBlock ==
    << Local(PatIdent("a"), ExprLit(1)),
       Local(PatIdent("a"), NoInit),
       Local(PatIdent("c"), ExprPath("a")) >>

\* { let b; let c = *b; let a = 1; }
FailFastBlock ==
    << Local(PatIdent("b"), NoInit),
       Local(PatIdent("c"), ExprDeref(ExprPath("b"))),
       Local(PatIdent("a"), ExprLit(1)) >>

ExampleBlocks ==
    {TestOkBlock, LiveRereadBlock, RedeclareBlock, RedeclareUndefBlock, FailFastBlock}

Blocks == {<<s>> : s \in Stmts} \cup SeqsOf(CoreStmts, MaxBlockLen) \cup ExampleBlocks

----------------------------------------------------------------------------
(* The state machine: a caller (the test, an embedding program) that owns  *)
(* an Environment and calls the two entry points, eval_block(block, env)   *)
(* and interpret(code).                                                    *)
(*   env     the Environment: the caller's, or the one interpret created   *)
(*   block   the block of the call in progress, pc its next statement      *)
(*   status  "ready" (the caller has control), "running" (in the loop of   *)
(*           eval_block), "returned" (eval_block has returned res),        *)
(*           "done" (interpret has returned ret), "panic" (aborted)        *)
(*   env0    the environment the call in progress started from             *)

NoRes == [kind |-> "None"]

\* Nothing printed since the last call.
NoOut == [kind |-> "None"]

Init ==
    /\ env = EmptyEnv
    /\ env0 = EmptyEnv
    /\ block = <<>>
    /\ pc = 1
    /\ status = "ready"
    /\ res = NoRes
    /\ entry = "none"
    /\ ret = NoRes
    /\ out = NoOut

\* The caller calls model.eval_block(&block, &mut env) on its environment.
CallEvalBlock(b) ==
    /\ status = "ready"
    /\ entry' = "eval_block"
    /\ block' = b
    /\ pc' = 1
    /\ status' = "running"
    /\ env0' = env
    /\ out' = NoOut
    /\ UNCHANGED <<env, res, ret>>

\* The caller calls model.interpret(code): the parsed block is run against
\* a fresh Environment::default().
Interpret(b) ==
    /\ status = "ready"
    /\ entry' = "interpret"
    /\ block' = b
    /\ pc' = 1
    /\ status' = "running"
    /\ env0' = EmptyEnv
    /\ env' = EmptyEnv
    /\ out' = NoOut
    /\ UNCHANGED <<res, ret>>

\* The loop with the error of a statement dropped: it goes on to the next.
Step_continue ==
    /\ status = "running"
    /\ pc <= Len(block)
    /\ LET o == eval_stmt(block[pc], env) IN
        /\ env' = o.env
        /\ pc' = IF o.r.kind = "Panic" THEN pc ELSE pc + 1
        /\ res' = IF o.r.kind = "Err" THEN o.r ELSE res
        /\ status' = IF o.r.kind = "Panic" THEN "panic" ELSE "running"
    /\ UNCHANGED <<block, entry, ret, env0, out>>

\* One iteration of the loop of eval_block: self.eval_stmt(stmt, env)?
Step ==
    /\ status = "running"
    /\ pc <= Len(block)
    /\ LET o == eval_stmt(block[pc], env) IN
        /\ env' = o.env
        /\ pc' = IF o.r.kind = "Ok" THEN pc + 1 ELSE pc
        /\ res' = IF o.r.kind = "Err" THEN o.r ELSE res
        /\ status' = IF o.r.kind = "Ok" THEN "running"
                     ELSE IF o.r.kind = "Err" THEN "returned"
                     ELSE "panic"
    /\ UNCHANGED <<block, entry, ret, env0, out>>

\* The loop of eval_block is over: Ok(()).
LoopExit ==
    /\ status = "running"
    /\ pc > Len(block)
    /\ res' = OkDone
    /\ status' = "returned"
    /\ UNCHANGED <<env, block, pc, entry, ret, env0, out>>

\* interpret that hands the environment over with the error.
InterpretReturn_partial ==
    /\ status = "returned"
    /\ entry = "interpret"
    /\ ret' = IF res.kind = "Err" THEN [kind |-> "Err", err |-> res.err, env |-> env]
              ELSE [kind |-> "Ok", env |-> env]
    /\ env' = env
    /\ status' = "done"
    /\ UNCHANGED <<block, pc, res, entry, env0, out>>

\* interpret after eval_block: `?` hands the error on and drops the
\* environment, Ok(env) hands the environment over.
InterpretReturn ==
    /\ status = "returned"
    /\ entry = "interpret"
    /\ ret' = IF res.kind = "Err" THEN res ELSE [kind |-> "Ok", env |-> env]
    /\ env' = IF res.kind = "Err" THEN EmptyEnv ELSE env
    /\ status' = "done"
    /\ UNCHANGED <<block, pc, res, entry, env0, out>>

\* The caller goes on with the environment it now holds: the one it passed
\* to eval_block, the one interpret returned, or a new Environment::default()
\* when interpret returned an error.
CallerContinues ==
    /\ status \in {"returned", "done"}
    /\ status = "returned" => entry = "eval_block"
    /\ status' = "ready"
    /\ block' = <<>>
    /\ pc' = 1
    /\ res' = NoRes
    /\ ret' = NoRes
    /\ entry' = "none"
    /\ env0' = EmptyEnv
    /\ UNCHANGED <<env, out>>

\* The caller prints the environment it holds: println!("{env}").  The map
\* iterates its entries in some order.  `lines` is what Display::fmt wrote
\* and `nl` the line end println! adds after it; a panic in fmt aborts with
\* the text written so far.
Display ==
    /\ status = "ready"
    /\ out = NoOut
    /\ \E iter \in IterOrders(env) :
          LET r == fmt_env(env, iter) IN
          /\ out' = IF r.kind = "Ok"
                    THEN [kind |-> "Text", iter |-> iter, lines |-> r.val, nl |-> "\n"]
                    ELSE [kind |-> "Partial", iter |-> iter, lines |-> r.val, nl |-> ""]
          /\ status' = IF r.kind = "Ok" THEN status ELSE "panic"
    /\ UNCHANGED <<env, block, pc, res, entry, ret, env0>>

\* The caller, which owns the environment, calls the public
\* env.insert(place, value) itself between two calls.
CallerInsert(place, value) ==
    /\ status = "ready"
    /\ env' = insert(env, place, value)
    /\ out' = NoOut
    /\ UNCHANGED <<block, pc, status, res, entry, ret, env0>>

Next ==
    \/ \E b \in Blocks : CallEvalBlock(b)
    \/ \E b \in Blocks : Interpret(b)
    \/ Step
    \/ LoopExit
    \/ InterpretReturn
    \/ CallerContinues
    \/ Display
    \/ \E place \in Places, value \in Values : CallerInsert(place, value)

Spec == Init /\ [][Next]_vars

\* Inside a call the loop of eval_block keeps running: the thread that made
\* the call executes it to its return or to the abort of a panic.
FairSpec == Spec /\ WF_vars(Step) /\ WF_vars(LoopExit)

----------------------------------------------------------------------------
(* Vocabulary of the properties. *)

\* The loop of eval_block is about to run a statement: the next step is Step.
Stepping == status = "running" /\ pc <= Len(block)

\* The statement the next Step runs.
CurStmt == block[pc]

\* Place p is bound to value v in environment e.
Bound(e, p, v) == p \in DOMAIN e /\ e[p] = v

\* Place p is bound in e to a value a read returns (not the sentinel).
Readable(e, p) == p \in DOMAIN e /\ e[p] # Undefined

\* Environments e and f bind the same places to the same values outside S.
SameExcept(e, f, S) ==
    /\ (DOMAIN e) \ S = (DOMAIN f) \ S
    /\ \A p \in (DOMAIN e) \ S : e[p] = f[p]

\* The value of a literal or of a reference-of a name.
LeafValue(x) == IF x.tag = "Lit" THEN Lit(x.lit) ELSE Ref(x.expr.ident)

\* Statement s writes the value of r to place a in environment e: a = r,
\* let a = r, or *p = r through some p bound to &a.
WritesTo(s, e, a, r) ==
    \/ s = Semi(ExprAssign(ExprPath(a), r))
    \/ s = Local(PatIdent(a), r)
    \/ \E p \in Places :
          Bound(e, p, Ref(a)) /\ s = Semi(ExprAssign(ExprDeref(ExprPath(p)), r))

----------------------------------------------------------------------------
(* C1: live aliasing.  While b is bound to &a: a statement that writes a   *)
(* value v to a (a = v, let a = v, *p = v through any p bound to &a)       *)
(* succeeds, leaves a bound to v and, b being another name than a, leaves  *)
(* b bound to &a; and a statement let c = *b run while a holds a value     *)
(* binds c to the value a holds now.  So *b returns the last value written *)
(* to a, never a snapshot: the block let a = 1; let b = &a; a = 2;         *)
(* let c = *b; ends with c bound to 2.                                     *)
C1_LiveAliasing ==
    [][ /\ Stepping =>
            \A a \in Places, b \in Places :
                Bound(env, b, Ref(a)) =>
                    /\ \A r \in LeafExprs :
                          WritesTo(CurStmt, env, a, r) =>
                              /\ status' = "running"
                              /\ Bound(env', a, LeafValue(r))
                              /\ b # a => Bound(env', b, Ref(a))
                              /\ Bound(env', b, Ref(a)) =>
                                    eval_expr(ExprDeref(ExprPath(b)), env').r
                                        = Ok(LeafValue(r))
                    /\ \A c \in Places :
                          (CurStmt = Local(PatIdent(c), ExprDeref(ExprPath(b)))
                              /\ Readable(env, a)) =>
                              /\ status' = "running"
                              /\ Bound(env', c, env[a])
        /\ (block = LiveRereadBlock /\ status' = "returned") =>
              res' = OkDone /\ Bound(env', "c", Lit(2))
      ]_vars

\* The example has run: c was read through b after a was rewritten.
C1_Witness ==
    /\ block = LiveRereadBlock
    /\ status = "returned"
    /\ Bound(env, "a", Lit(2))
    /\ Bound(env, "b", Ref("a"))
    /\ Bound(env, "c", Lit(2))

----------------------------------------------------------------------------
(* C2: assignment through a dereference writes the ultimate referent and   *)
(* nothing else.  With p bound to &a, the statement *p = v succeeds and    *)
(* leaves a bound to v and every binding other than a as it was, so that   *)
(* p, when it is another name than a, is still bound to &a; with q bound   *)
(* to &p and p bound to &a, the statement **q = v does the same, and q and *)
(* p, when they are other names than a, keep their references.             *)
C2_DerefAssignFrame ==
    [][ Stepping =>
          \A p \in Places, a \in Places, v \in Lits :
              Bound(env, p, Ref(a)) =>
                  /\ CurStmt = Semi(ExprAssign(ExprDeref(ExprPath(p)), ExprLit(v))) =>
                        /\ status' = "running"
                        /\ Bound(env', a, Lit(v))
                        /\ SameExcept(env, env', {a})
                        /\ p # a => Bound(env', p, Ref(a))
                  /\ \A q \in Places :
                        (Bound(env, q, Ref(p))
                           /\ CurStmt = Semi(ExprAssign(ExprDeref(ExprDeref(ExprPath(q))),
                                                        ExprLit(v)))) =>
                            /\ status' = "running"
                            /\ Bound(env', a, Lit(v))
                            /\ SameExcept(env, env', {a})
                            /\ p # a => Bound(env', p, Ref(a))
                            /\ q # a => Bound(env', q, Ref(p))
      ]_vars

\* C2 as stated: p (and q) still hold their references, whatever a is.
C2_AsStated ==
    [][ Stepping =>
          \A p \in Places, a \in Places, v \in Lits :
              Bound(env, p, Ref(a)) =>
                  /\ CurStmt = Semi(ExprAssign(ExprDeref(ExprPath(p)), ExprLit(v))) =>
                        /\ status' = "running"
                        /\ Bound(env', a, Lit(v))
                        /\ SameExcept(env, env', {a})
                        /\ Bound(env', p, Ref(a))
                  /\ \A q \in Places :
                        (Bound(env, q, Ref(p))
                           /\ CurStmt = Semi(ExprAssign(ExprDeref(ExprDeref(ExprPath(q))),
                                                        ExprLit(v)))) =>
                            /\ status' = "running"
                            /\ Bound(env', a, Lit(v))
                            /\ SameExcept(env, env', {a})
                            /\ Bound(env', p, Ref(a))
                            /\ Bound(env', q, Ref(p))
      ]_vars

\* **c = 2 has run with c bound to &b, b to &a and a to 1: only a changed.
C2_Witness ==
    /\ block = <<Semi(ExprAssign(ExprDeref(ExprDeref(ExprPath("c"))), ExprLit(2)))>>
    /\ status = "running"
    /\ pc = 2
    /\ env0 = [a |-> Lit(1), b |-> Ref("a"), c |-> Ref("b")]
    /\ env = [a |-> Lit(2), b |-> Ref("a"), c |-> Ref("b")]

----------------------------------------------------------------------------
(* C3: assigning to a bare name bound to the sentinel.  With x bound to    *)
(* Undefined, x = r fails only if reading the right side fails; otherwise  *)
(* it succeeds, binds x to the value of r and changes nothing else, and a  *)
(* lookup of x then returns that value.  The block of the test, run from   *)
(* the empty environment, returns Ok and leaves exactly a -> 1, b -> &a,   *)
(* c -> 1.                                                                 *)
C3_AssignUndefined ==
    [][ /\ Stepping =>
            \A x \in Places, r \in LeafExprs \cup PathExprs :
                (Bound(env, x, Undefined)
                    /\ CurStmt = Semi(ExprAssign(ExprPath(x), r))) =>
                    LET v == eval_expr(r, env).r IN
                    IF v.kind = "Ok"
                    THEN /\ status' = "running"
                         /\ Bound(env', x, v.val)
                         /\ SameExcept(env, env', {x})
                         /\ lookup(env', x) = Ok(v.val)
                    ELSE /\ r \in PathExprs
                         /\ ~Readable(env, r.ident)
                         /\ res' = v
        /\ (block = TestOkBlock /\ env0 = EmptyEnv /\ status' = "returned") =>
              /\ res' = OkDone
              /\ env' = [a |-> Lit(1), b |-> Ref("a"), c |-> Lit(1)]
      ]_vars

\* The block of the test has returned from a run on the empty environment.
C3_Witness ==
    /\ block = TestOkBlock
    /\ env0 = EmptyEnv
    /\ status = "returned"
    /\ res = OkDone
    /\ env = [a |-> Lit(1), b |-> Ref("a"), c |-> Lit(1)]

----------------------------------------------------------------------------
(* C4: the three outcomes of Environment.lookup, seen through let c = x.   *)
(* x not a key: NotFound(x), the statement fails with it and the           *)
(* environment is as before.  x bound to Undefined: UndefinedRead(x), a    *)
(* different error, likewise.  Otherwise lookup returns the bound value,   *)
(* a Unit, Lit or Ref, and the statement binds c to it and changes nothing *)
(* else.                                                                   *)
C4_LookupOutcomes ==
    [][ Stepping =>
          \A x \in Places, c \in Places :
              CurStmt = Local(PatIdent(c), ExprPath(x)) =>
                  /\ NotFound(x) # UndefinedRead(x)
                  /\ x \notin DOMAIN env =>
                        /\ lookup(env, x) = Err(NotFound(x))
                        /\ status' = "returned"
                        /\ res' = Err(NotFound(x))
                        /\ env' = env
                  /\ Bound(env, x, Undefined) =>
                        /\ lookup(env, x) = Err(UndefinedRead(x))
                        /\ status' = "returned"
                        /\ res' = Err(UndefinedRead(x))
                        /\ env' = env
                  /\ Readable(env, x) =>
                        /\ lookup(env, x) = Ok(env[x])
                        /\ env[x].tag \in {"Unit", "Lit", "Ref"}
                        /\ status' = "running"
                        /\ Bound(env', c, env[x])
                        /\ SameExcept(env, env', {c})
      ]_vars

\* let c = a has failed on a declared but uninitialized a, and b is not bound.
C4_Witness ==
    /\ block = <<Local(PatIdent("c"), ExprPath("a"))>>
    /\ status = "returned"
    /\ res = Err(UndefinedRead("a"))
    /\ Bound(env, "a", Undefined)
    /\ lookup(env, "b") = Err(NotFound("b"))

----------------------------------------------------------------------------
(* Vocabulary: what a statement writes, what a place expression denotes,   *)
(* what a block does statement by statement.                               *)

\* The places the assignments in expression x assign, resolved in e.
RECURSIVE AssignTargets(_, _)
AssignTargets(x, e) ==
    IF x.tag = "Assign"
    THEN LET l == eval_place(x.left, e) IN
         (IF l.kind = "Ok" THEN {l.val} ELSE {}) \cup AssignTargets(x.right, e)
    ELSE {}

\* The places statement s assigns, or declares with a value, in e.
Targets(s, e) ==
    IF s.tag = "Local" /\ s.pat.tag = "Ident" /\ s.init # NoInit
    THEN {s.pat.ident} \cup AssignTargets(s.init, e)
    ELSE IF s.tag = "Semi" THEN AssignTargets(s.expr, e)
    ELSE {}

\* The place statement s declares without a value.
Undeclares(s) ==
    IF s.tag = "Local" /\ s.pat.tag = "Ident" /\ s.init = NoInit
    THEN {s.pat.ident} ELSE {}

\* Place expression x denotes place p in e: x is the name p, or x is *y and
\* the place y denotes is bound to &p.
RECURSIVE Denotes(_, _, _)
Denotes(x, e, p) ==
    IF x.tag = "Path" THEN x.ident = p
    ELSE x.tag = "Unary" /\ x.op = "Deref"
         /\ \E y \in Places : Denotes(x.expr, e, y) /\ Bound(e, y, Ref(p))

\* Statement s reads through the dereference *x: let c = *x.
IsDerefRead(s, x) ==
    s.tag = "Local" /\ s.pat.tag = "Ident" /\ s.init = ExprDeref(x)

\* Statement s assigns through the dereference *x: *x = r.
IsDerefWrite(s, x) ==
    s.tag = "Semi" /\ s.expr.tag = "Assign" /\ s.expr.left = ExprDeref(x)

\* The environment after the first k statements of block b, run from e.
RECURSIVE EnvAfter(_, _, _)
EnvAfter(b, e, k) ==
    IF k = 0 THEN e ELSE eval_stmt(b[k], EnvAfter(b, e, k - 1)).env

\* The first k statements of block b, run in order from e, all succeed.
AllOk(b, e, k) ==
    \A j \in 1..k : eval_stmt(b[j], EnvAfter(b, e, j - 1)).r.kind = "Ok"

----------------------------------------------------------------------------
(* C5: after let x; the name is bound to the sentinel, and while it is:    *)
(* let c = x, let c = *x and *x = r all fail with UndefinedRead(x) and     *)
(* leave the environment as it was, and a statement that neither assigns   *)
(* x nor declares it with a value leaves x bound to the sentinel.          *)
C5_UndefinedUntilWritten ==
    [][ Stepping =>
          \A x \in Places :
              /\ CurStmt = Local(PatIdent(x), NoInit) =>
                    status' = "running" /\ Bound(env', x, Undefined)
              /\ Bound(env, x, Undefined) =>
                    /\ (\/ \E c \in Places : CurStmt = Local(PatIdent(c), ExprPath(x))
                        \/ IsDerefRead(CurStmt, ExprPath(x))
                        \/ IsDerefWrite(CurStmt, ExprPath(x))) =>
                          /\ status' = "returned"
                          /\ res' = Err(UndefinedRead(x))
                          /\ env' = env
                    /\ x \notin Targets(CurStmt, env) => Bound(env', x, Undefined)
      ]_vars

\* let c = *a has failed on an a that was declared, then referenced by b,
\* and never written.
C5_Witness ==
    /\ block = <<Local(PatIdent("c"), ExprDeref(ExprPath("a")))>>
    /\ status = "returned"
    /\ res = Err(UndefinedRead("a"))
    /\ Bound(env, "a", Undefined)
    /\ Bound(env, "b", Ref("a"))

----------------------------------------------------------------------------
(* C6: the last write wins.  let x = v, let x; and x = v succeed whatever  *)
(* x was bound to, leave x bound to v (to the sentinel for let x;) and     *)
(* change no other binding; a statement that succeeds and does not write   *)
(* x leaves the binding of x as it was.  let a = 1; let a = 2; let c = a;  *)
(* ends with a and c bound to 2; let a = 1; let a; let c = a; fails with   *)
(* UndefinedRead(a).                                                       *)
C6_LastWriteWins ==
    [][ /\ Stepping =>
            \A x \in Places :
                /\ \A r \in LeafExprs :
                      CurStmt \in {Local(PatIdent(x), r), Semi(ExprAssign(ExprPath(x), r))} =>
                          /\ status' = "running"
                          /\ Bound(env', x, LeafValue(r))
                          /\ SameExcept(env, env', {x})
                /\ CurStmt = Local(PatIdent(x), NoInit) =>
                      /\ status' = "running"
                      /\ Bound(env', x, Undefined)
                      /\ SameExcept(env, env', {x})
                /\ (status' = "running"
                      /\ x \notin Targets(CurStmt, env) \cup Undeclares(CurStmt)) =>
                      SameExcept(env, env', Places \ {x})
        /\ (block = RedeclareBlock /\ status' = "returned") =>
              /\ res' = OkDone
              /\ Bound(env', "a", Lit(2))
              /\ Bound(env', "c", Lit(2))
        /\ (block = RedeclareUndefBlock /\ status' = "returned") =>
              /\ res' = Err(UndefinedRead("a"))
              /\ Bound(env', "a", Undefined)
      ]_vars

\* let a = 1; let a = 2; let c = a; has returned: the read saw 2.
C6_Witness ==
    /\ block = RedeclareBlock
    /\ status = "returned"
    /\ res = OkDone
    /\ Bound(env, "a", Lit(2))
    /\ Bound(env, "c", Lit(2))

----------------------------------------------------------------------------
(* C7: dereferencing a non-reference.  When the operand x of *x denotes a  *)
(* place bound to a Lit or to Unit, both let c = *x and *x = r fail with   *)
(* TypeMismatch on that value and leave the environment as it was.         *)
C7_DerefNonReference ==
    [][ Stepping =>
          \A x \in PlaceExprs, p \in Places :
              (/\ Denotes(x, env, p)
               /\ Readable(env, p)
               /\ env[p].tag \in {"Lit", "Unit"}
               /\ IsDerefRead(CurStmt, x) \/ IsDerefWrite(CurStmt, x)) =>
                  /\ status' = "returned"
                  /\ res' = Err(TypeMismatch(env[p]))
                  /\ env' = env
      ]_vars

\* An assignment through *a has failed on an a bound to Unit.
C7_Witness ==
    /\ status = "returned"
    /\ Len(block) = 1
    /\ IsDerefWrite(block[1], ExprPath("a"))
    /\ res = Err(TypeMismatch(Unit))
    /\ Bound(env, "a", Unit)

\* A read through **c has failed on c -> &b, b -> 1.
C7_WitnessRead ==
    /\ status = "returned"
    /\ Len(block) = 1
    /\ IsDerefRead(block[1], ExprDeref(ExprPath("c")))
    /\ res = Err(TypeMismatch(Lit(1)))

----------------------------------------------------------------------------
(* C8: a construct outside the supported subset is answered with the       *)
(* error UnsupportedConstruct, and evaluation never aborts.                *)

RECURSIVE SupportedPlace(_)
SupportedPlace(x) ==
    \/ x.tag = "Path" /\ x.ident # NoIdent
    \/ x.tag = "Unary" /\ x.op = "Deref" /\ SupportedPlace(x.expr)

RECURSIVE SupportedExpr(_)
SupportedExpr(x) ==
    \/ x.tag = "Lit"
    \/ x.tag = "Path" /\ x.ident # NoIdent
    \/ x.tag = "Reference" /\ x.expr.tag = "Path" /\ x.expr.ident # NoIdent
    \/ x.tag = "Unary" /\ x.op = "Deref" /\ SupportedPlace(x.expr)
    \/ x.tag = "Assign" /\ SupportedPlace(x.left) /\ SupportedExpr(x.right)

SupportedStmt(s) ==
    \/ s.tag = "Local" /\ s.pat.tag = "Ident" /\ (s.init = NoInit \/ SupportedExpr(s.init))
    \/ s.tag = "Semi" /\ SupportedExpr(s.expr)

\* The error kind the specification asks for; the code has none.
UnsupportedConstruct == [type |-> "UnsupportedConstruct"]

\* C8: no step of eval_block ends in a panic, and a statement outside the
\* supported subset makes eval_block return Err(UnsupportedConstruct).
C8_UnsupportedIsError ==
    [][ Stepping =>
          /\ status' # "panic"
          /\ (status' = "returned" /\ ~SupportedStmt(CurStmt)) =>
                res' = Err(UnsupportedConstruct)
      ]_vars

----------------------------------------------------------------------------
(* C9: fail-fast in source order.  While eval_block runs, the statements   *)
(* before pc have all succeeded, in order, and the environment is what     *)
(* they made of the one the call started from.  When it returns an error,  *)
(* statement pc is the first that failed, the error is the one that        *)
(* statement produced, and the environment is as that statement left it:   *)
(* no later statement has run.  When it returns Ok, every statement has    *)
(* run.                                                                    *)
C9_FailFast ==
    /\ status = "running" =>
          /\ pc \in 1..(Len(block) + 1)
          /\ AllOk(block, env0, pc - 1)
          /\ env = EnvAfter(block, env0, pc - 1)
    /\ (status = "returned" /\ res.kind = "Err") =>
          /\ pc \in 1..Len(block)
          /\ AllOk(block, env0, pc - 1)
          /\ res = eval_stmt(block[pc], EnvAfter(block, env0, pc - 1)).r
          /\ env = eval_stmt(block[pc], EnvAfter(block, env0, pc - 1)).env
    /\ (status = "returned" /\ res.kind # "Err") =>
          /\ res = OkDone
          /\ pc = Len(block) + 1
          /\ AllOk(block, env0, Len(block))
          /\ env = EnvAfter(block, env0, Len(block))

\* { let b; let c = *b; let a = 1; } has failed at its second statement:
\* b is declared, let a = 1 never ran.
C9_Witness ==
    /\ block = FailFastBlock
    /\ env0 = EmptyEnv
    /\ status = "returned"
    /\ pc = 2
    /\ res = Err(UndefinedRead("b"))
    /\ env = [b |-> Undefined]

----------------------------------------------------------------------------
(* C10: interpret runs the block on a fresh, empty environment and returns *)
(* either the error of the first failing statement, with no environment,   *)
(* or, when every statement succeeded, the environment the whole block     *)
(* made of the empty one.                                                  *)
C10_ErrorOrComplete ==
    /\ (entry = "interpret" /\ status \in {"running", "returned", "done"}) =>
          env0 = EmptyEnv
    /\ status = "done" =>
          IF AllOk(block, EmptyEnv, Len(block))
          THEN ret = [kind |-> "Ok", env |-> EnvAfter(block, EmptyEnv, Len(block))]
          ELSE /\ ret.kind = "Err"
               /\ DOMAIN ret = {"kind", "err"}
               /\ ret = eval_stmt(block[pc], EnvAfter(block, EmptyEnv, pc - 1)).r
               /\ env = EmptyEnv

\* interpret has returned the error of the second statement of
\* { let b; let c = *b; let a = 1; }: the binding of b is not handed over.
C10_Witness ==
    /\ entry = "interpret"
    /\ status = "done"
    /\ block = FailFastBlock
    /\ pc = 2
    /\ ret = Err(UndefinedRead("b"))

----------------------------------------------------------------------------
(* C11: rendering.  Whatever order the map iterates in, the text printed   *)
(* has exactly one line per binding, the lines ascend by name, and the     *)
(* line of name k bound to v is k, the separator, the text of v and a line *)
(* end: &n for Ref(n), () for Unit, undefined for Undefined, the digits    *)
(* for an integer literal.                                                 *)

\* Name x sorts before name y.
NameBefore(x, y) == <<x, y>> \in {<<"a", "b">>, <<"a", "c">>, <<"b", "c">>}

\* The text the specification gives for a value.
ValueText(v) ==
    CASE v = Unit -> "()"
      [] v = Undefined -> "undefined"
      [] v = Lit(1) -> "1"
      [] v = Lit(2) -> "2"
      [] v.tag = "Ref" -> "&" \o v.place

C11_RenderSorted ==
    out.kind = "Text" =>
        /\ Len(out.lines) = Cardinality(DOMAIN env)
        /\ \E ks \in IterOrders(env) :
              /\ \A i \in 1..Len(ks), j \in 1..Len(ks) : i < j => NameBefore(ks[i], ks[j])
              /\ \A i \in 1..Len(ks) :
                    /\ out.lines[i].name = ks[i]
                    /\ out.lines[i].value = ValueText(env[ks[i]])
                    /\ out.lines[i].end = "\n"

\* {b: &a, a: 1} was printed from a map that iterates b first: a comes first.
C11_Witness ==
    /\ out.kind = "Text"
    /\ env = [a |-> Lit(1), b |-> Ref("a")]
    /\ out.iter = <<"b", "a">>
    /\ out.lines = <<Line("a", "1"), Line("b", "&a")>>

\* All four kinds of value were printed, from a map iterating c, b, a.
C11_WitnessKinds ==
    /\ out.kind = "Text"
    /\ out.iter = <<"c", "b", "a">>
    /\ out.lines = <<Line("a", "()"), Line("b", "undefined"), Line("c", "2")>>

----------------------------------------------------------------------------
(* C12: one hop per dereference operator.  With x0 bound to &x1, ...,      *)
(* x(n-1) bound to &xn (n >= 1, the names not necessarily different),      *)
(* let c = *..*x0 with n operators does what a lookup of xn does now: it   *)
(* binds c to the value of xn, or fails with NotFound(xn) or               *)
(* UndefinedRead(xn); and *..*x0 = r writes xn and nothing else.           *)

\* *..*x with n dereference operators.
RECURSIVE NDeref(_, _)
NDeref(n, x) == IF n = 0 THEN ExprPath(x) ELSE ExprDeref(NDeref(n - 1, x))

\* xs[1] is bound to &xs[2], ..., xs[n] to &xs[n+1] in e.
IsChain(e, xs, n) == \A i \in 1..n : Bound(e, xs[i], Ref(xs[i + 1]))

C12_OneHopPerDeref ==
    [][ Stepping =>
          \A n \in 1..MaxDeref :
              \A xs \in [1..(n + 1) -> Places] :
                  IsChain(env, xs, n) =>
                      /\ \A c \in Places :
                            CurStmt = Local(PatIdent(c), NDeref(n, xs[1])) =>
                                IF Readable(env, xs[n + 1])
                                THEN /\ status' = "running"
                                     /\ Bound(env', c, env[xs[n + 1]])
                                     /\ SameExcept(env, env', {c})
                                ELSE /\ status' = "returned"
                                     /\ env' = env
                                     /\ res' = IF xs[n + 1] \in DOMAIN env
                                               THEN Err(UndefinedRead(xs[n + 1]))
                                               ELSE Err(NotFound(xs[n + 1]))
                      /\ \A r \in LeafExprs :
                            CurStmt = Semi(ExprAssign(NDeref(n, xs[1]), r)) =>
                                /\ status' = "running"
                                /\ Bound(env', xs[n + 1], LeafValue(r))
                                /\ SameExcept(env, env', {xs[n + 1]})
      ]_vars

\* let c = **c has run with c bound to &b, b to &a and a to 1: c is now 1.
C12_Witness ==
    /\ block = <<Local(PatIdent("c"), ExprDeref(ExprDeref(ExprPath("c"))))>>
    /\ status = "running"
    /\ pc = 2
    /\ env0 = [a |-> Lit(1), b |-> Ref("a"), c |-> Ref("b")]
    /\ env = [a |-> Lit(1), b |-> Ref("a"), c |-> Lit(1)]

----------------------------------------------------------------------------
(* C13: &x is never checked.  Whether x is unbound, bound to the sentinel  *)
(* or bound to a value, let c = &x succeeds, binds c to Reference(x) and   *)
(* changes nothing else, and l = &x stores Reference(x) in the place l     *)
(* denotes and changes nothing else.  The error comes with the read        *)
(* through the reference: with c bound to &x and x not readable,           *)
(* let d = *c fails with NotFound(x) or UndefinedRead(x).                  *)
C13_ReferenceUnchecked ==
    [][ Stepping =>
          \A x \in Places :
              /\ \A c \in Places :
                    CurStmt = Local(PatIdent(c), ExprReference(ExprPath(x))) =>
                        /\ status' = "running"
                        /\ Bound(env', c, Ref(x))
                        /\ SameExcept(env, env', {c})
              /\ \A l \in PlaceExprs, p \in Places :
                    (CurStmt = Semi(ExprAssign(l, ExprReference(ExprPath(x))))
                     /\ Denotes(l, env, p)) =>
                        /\ status' = "running"
                        /\ Bound(env', p, Ref(x))
                        /\ SameExcept(env, env', {p})
              /\ \A c \in Places, d \in Places :
                    (Bound(env, c, Ref(x)) /\ ~Readable(env, x)
                     /\ CurStmt = Local(PatIdent(d), ExprDeref(ExprPath(c)))) =>
                        /\ status' = "returned"
                        /\ env' = env
                        /\ res' = IF x \in DOMAIN env THEN Err(UndefinedRead(x))
                                  ELSE Err(NotFound(x))
      ]_vars

\* { let b = &a; let c = *b; } from the empty environment: the reference to
\* the unbound a was made, and the read through it failed with NotFound(a).
C13_Witness ==
    /\ block = << Local(PatIdent("b"), ExprReference(ExprPath("a"))),
                  Local(PatIdent("c"), ExprDeref(ExprPath("b"))) >>
    /\ env0 = EmptyEnv
    /\ status = "returned"
    /\ pc = 2
    /\ env = [b |-> Ref("a")]
    /\ res = Err(NotFound("a"))

\* let c = &a has run with a bound to the sentinel: c is &a, a is untouched.
C13_WitnessUndefined ==
    /\ block = <<Local(PatIdent("c"), ExprReference(ExprPath("a")))>>
    /\ env0 = [a |-> Undefined]
    /\ status = "running"
    /\ pc = 2
    /\ env = [a |-> Undefined, c |-> Ref("a")]

----------------------------------------------------------------------------
(* C14: the target of an assignment is resolved before its right-hand side *)
(* is evaluated.  In *p = m = r with p bound to &t, the place written by   *)
(* the outer assignment is t, the referent of p before m = r ran: t        *)
(* becomes Unit (the value of m = r), m gets the value of r unless m is t, *)
(* and nothing else is written.  So with p bound to &a, *p = p = &c makes  *)
(* a Unit and p &c, and c is not written.  When p cannot be dereferenced   *)
(* the statement fails on p and m = r has not run.                         *)

\* The value of the right-hand side r (&z or y) in e.
C14_RhsValue(r, e) == IF r.tag = "Reference" THEN Ref(r.expr.ident) ELSE e[r.ident]

\* The right-hand sides of the inner assignment: &z, or y where y is readable.
C14_Rhs(e) ==
    {ExprReference(z) : z \in PathExprs} \cup {ExprPath(y) : y \in {q \in Places : Readable(e, q)}}

C14_TargetBeforeRhs ==
    [][ Stepping =>
          \A p \in Places, m \in Places :
              \A r \in C14_Rhs(env) :
                  CurStmt = Semi(ExprAssign(ExprDeref(ExprPath(p)),
                                            ExprAssign(ExprPath(m), r))) =>
                      /\ \A t \in Places :
                            Bound(env, p, Ref(t)) =>
                                /\ status' = "running"
                                /\ Bound(env', t, Unit)
                                /\ m # t => Bound(env', m, C14_RhsValue(r, env))
                                /\ SameExcept(env, env', {t, m})
                      /\ ~Readable(env, p) =>
                            /\ status' = "returned"
                            /\ env' = env
                            /\ res' = IF p \in DOMAIN env THEN Err(UndefinedRead(p))
                                      ELSE Err(NotFound(p))
      ]_vars

\* *b = b = &c has run with b bound to &a and a to 1: a is Unit, b is &c and
\* c is still unbound.
C14_Witness ==
    /\ block = <<Semi(ExprAssign(ExprDeref(ExprPath("b")),
                                 ExprAssign(ExprPath("b"), ExprReference(ExprPath("c")))))>>
    /\ env0 = [a |-> Lit(1), b |-> Ref("a")]
    /\ status = "running"
    /\ pc = 2
    /\ env = [a |-> Unit, b |-> Ref("c")]

\* The same statement with c bound beforehand: c keeps its value.
C14_WitnessBound ==
    /\ block = <<Semi(ExprAssign(ExprDeref(ExprPath("b")),
                                 ExprAssign(ExprPath("b"), ExprReference(ExprPath("c")))))>>
    /\ env0 = [a |-> Lit(1), b |-> Ref("a"), c |-> Lit(2)]
    /\ status = "running"
    /\ pc = 2
    /\ env = [a |-> Unit, b |-> Ref("c"), c |-> Lit(2)]

----------------------------------------------------------------------------
(* C15: a statement that fails with an error value (NotFound,              *)
(* UndefinedRead or TypeMismatch) leaves the environment exactly as it was *)
(* before the statement; so when eval_block returns the error of statement *)
(* k, the statements 1..k-1 all succeeded and the environment is the one   *)
(* they produced from the environment the call started with.               *)
C15_FailedStmtNoWrite ==
    [][ (Stepping /\ status' = "returned") =>
          /\ res'.kind = "Err"
          /\ res'.err.type \in {"NotFound", "UndefinedRead", "TypeMismatch"}
          /\ env' = env
          /\ AllOk(block, env0, pc - 1)
          /\ env' = EnvAfter(block, env0, pc - 1)
      ]_vars

\* { let a = 1; *b = 2; } with b bound to 2: the second statement failed
\* with TypeMismatch and the environment is the one after let a = 1.
C15_Witness ==
    /\ block = << Local(PatIdent("a"), ExprLit(1)),
                  Semi(ExprAssign(ExprDeref(ExprPath("b")), ExprLit(2))) >>
    /\ env0 = [b |-> Lit(2)]
    /\ status = "returned"
    /\ pc = 2
    /\ res = Err(TypeMismatch(Lit(2)))
    /\ env = [a |-> Lit(1), b |-> Lit(2)]

\* *a = b = c with a bound to &b and c unbound: the inner assignment failed
\* on c and neither b nor the referent of a was written.
C15_WitnessNested ==
    /\ block = <<Semi(ExprAssign(ExprDeref(ExprPath("a")),
                                 ExprAssign(ExprPath("b"), ExprPath("c"))))>>
    /\ env0 = [a |-> Ref("b")]
    /\ status = "returned"
    /\ pc = 1
    /\ res = Err(NotFound("c"))
    /\ env = [a |-> Ref("b")]

----------------------------------------------------------------------------
(* C16: the target of an assignment need not be bound.  x = r for a name x *)
(* that is not in the environment succeeds and creates the binding; and    *)
(* with p bound to &z and z not in the environment, *p = r succeeds and    *)
(* creates z.  Nothing else changes.                                       *)
C16_AssignCreatesBinding ==
    [][ Stepping =>
          \A x \in Places \ DOMAIN env :
              \A r \in LeafExprs :
                  /\ CurStmt = Semi(ExprAssign(ExprPath(x), r)) =>
                        /\ status' = "running"
                        /\ Bound(env', x, LeafValue(r))
                        /\ DOMAIN env' = DOMAIN env \cup {x}
                        /\ SameExcept(env, env', {x})
                  /\ \A p \in Places :
                        (Bound(env, p, Ref(x))
                         /\ CurStmt = Semi(ExprAssign(ExprDeref(ExprPath(p)), r))) =>
                            /\ status' = "running"
                            /\ Bound(env', x, LeafValue(r))
                            /\ DOMAIN env' = DOMAIN env \cup {x}
                            /\ SameExcept(env, env', {x})
      ]_vars

\* *b = 2 has run with b bound to &a and a unbound: a now exists and is 2.
C16_Witness ==
    /\ block = <<Semi(ExprAssign(ExprDeref(ExprPath("b")), ExprLit(2)))>>
    /\ env0 = [b |-> Ref("a")]
    /\ status = "running"
    /\ pc = 2
    /\ env = [a |-> Lit(2), b |-> Ref("a")]

\* c = 1 has run in the empty environment: c now exists and is 1.
C16_WitnessUndeclared ==
    /\ block = <<Semi(ExprAssign(ExprPath("c"), ExprLit(1)))>>
    /\ env0 = EmptyEnv
    /\ status = "running"
    /\ pc = 2
    /\ env = [c |-> Lit(1)]

----------------------------------------------------------------------------
(* C17: error precedence in a dereference.  When the operand x of *x       *)
(* denotes the place p, a read let c = *x and a write *x = r fail with     *)
(* NotFound(p) when p is not bound, with UndefinedRead(p) when p is bound  *)
(* to the sentinel, and with TypeMismatch only when p is bound to a        *)
(* literal or to Unit; no statement ever reports TypeMismatch for the      *)
(* sentinel or for a reference.  The environment is left as it was.        *)
C17_DerefErrorPrecedence ==
    [][ Stepping =>
          /\ \A x \in DerefChains(MaxDeref - 1), p \in Places :
                (Denotes(x, env, p)
                 /\ (IsDerefRead(CurStmt, x) \/ IsDerefWrite(CurStmt, x))) =>
                    /\ p \notin DOMAIN env =>
                          status' = "returned" /\ res' = Err(NotFound(p)) /\ env' = env
                    /\ Bound(env, p, Undefined) =>
                          status' = "returned" /\ res' = Err(UndefinedRead(p)) /\ env' = env
                    /\ (p \in DOMAIN env /\ env[p].tag \in {"Lit", "Unit"}) =>
                          status' = "returned" /\ res' = Err(TypeMismatch(env[p])) /\ env' = env
                    /\ (status' = "returned" /\ res'.err.type = "TypeMismatch") =>
                          (p \in DOMAIN env /\ env[p].tag \in {"Lit", "Unit"})
          /\ (status' = "returned" /\ res'.err.type = "TypeMismatch") =>
                res'.err.value.tag \in {"Lit", "Unit"}
      ]_vars

\* *b = 1 has run with b bound to the sentinel: UndefinedRead(b), and b is
\* still the sentinel.
C17_Witness ==
    /\ block = <<Semi(ExprAssign(ExprDeref(ExprPath("b")), ExprLit(1)))>>
    /\ env0 = [b |-> Undefined]
    /\ status = "returned"
    /\ pc = 1
    /\ res = Err(UndefinedRead("b"))
    /\ env = [b |-> Undefined]

\* let c = **a has run with a bound to &b and b unbound: NotFound(b).
C17_WitnessNotFound ==
    /\ block = <<Local(PatIdent("c"), ExprDeref(ExprDeref(ExprPath("a"))))>>
    /\ env0 = [a |-> Ref("b")]
    /\ status = "returned"
    /\ pc = 1
    /\ res = Err(NotFound("b"))
    /\ env = [a |-> Ref("b")]

----------------------------------------------------------------------------
(* C18: evaluation terminates, also on reference cycles.  The lookups a    *)
(* statement makes are at most the dereference and variable nodes of its   *)
(* expression, whatever chains or cycles of references the environment     *)
(* holds; every iteration of the loop of eval_block ends the call or moves *)
(* to the next statement; and every call that runs comes to an end: at     *)
(* every moment there is a later one at which no call is running.          *)

\* The dereference and variable nodes of an expression.
RECURSIVE DerefAndPathNodes(_)
DerefAndPathNodes(x) ==
    IF x.tag = "Path" THEN 1
    ELSE IF x.tag = "Reference" THEN DerefAndPathNodes(x.expr)
    ELSE IF x.tag = "Unary" THEN
        (IF x.op = "Deref" THEN 1 ELSE 0) + DerefAndPathNodes(x.expr)
    ELSE IF x.tag = "Assign" THEN DerefAndPathNodes(x.left) + DerefAndPathNodes(x.right)
    ELSE 0

StmtNodes(s) ==
    IF s.tag = "Local" THEN (IF s.init # NoInit THEN DerefAndPathNodes(s.init) ELSE 0)
    ELSE IF s.tag = "Semi" THEN DerefAndPathNodes(s.expr)
    ELSE 0

\* Some name reaches itself through the references stored in e.
HasCycle(e) ==
    \E x \in DOMAIN e :
        \/ Bound(e, x, Ref(x))
        \/ \E y \in DOMAIN e : y # x /\ Bound(e, x, Ref(y)) /\ Bound(e, y, Ref(x))

C18_Terminates ==
    /\ [](Stepping => lookups_stmt(CurStmt, env) <= StmtNodes(CurStmt))
    /\ [][Stepping => (status' # "running" \/ pc' = pc + 1)]_vars
    /\ []<>(status # "running")

\* let c = **a has run on the cycle a -> &b, b -> &a: two hops, c is &b.
C18_Witness ==
    /\ block = <<Local(PatIdent("c"), ExprDeref(ExprDeref(ExprPath("a"))))>>
    /\ env0 = [a |-> Ref("b"), b |-> Ref("a")]
    /\ HasCycle(env0)
    /\ lookups_stmt(block[1], env0) = 3
    /\ status = "running"
    /\ pc = 2
    /\ env = [a |-> Ref("b"), b |-> Ref("a"), c |-> Ref("b")]

\* let c = *a has run on the cycle a -> &a.
C18_WitnessSelf ==
    /\ block = <<Local(PatIdent("c"), ExprDeref(ExprPath("a")))>>
    /\ env0 = [a |-> Ref("a")]
    /\ status = "running"
    /\ pc = 2
    /\ env = [a |-> Ref("a"), c |-> Ref("a")]

----------------------------------------------------------------------------
(* C19: the set of bound names never shrinks.  Whatever happens to an      *)
(* environment the caller keeps (a statement that succeeds, fails or       *)
(* panics, the return of eval_block, the next eval_block call on it),      *)
(* every name bound before is bound after: a lookup that did not give      *)
(* NotFound does not give NotFound afterwards, and a lookup that gave a    *)
(* value gives UndefinedRead afterwards only when the statement run was    *)
(* let x; for that name, or the caller itself has inserted the sentinel    *)
(* between two calls.  interpret makes a new environment and drops it on   *)
(* an error; those two steps change which environment is held.             *)

\* The step is interpret creating its Environment::default(), or interpret
\* returning: the environment held after it is another one.
C19_OtherEnvironment ==
    \/ status = "ready" /\ entry' = "interpret"
    \/ status = "returned" /\ entry = "interpret"

\* The step is the caller's own env.insert between two calls.
C19_CallerWrites == status = "ready" /\ status' = "ready" /\ env' # env

C19_NamesNeverShrink ==
    [][ ~C19_OtherEnvironment =>
          /\ DOMAIN env \subseteq DOMAIN env'
          /\ \A x \in Places :
                /\ lookup(env, x) # Err(NotFound(x)) => lookup(env', x) # Err(NotFound(x))
                /\ (lookup(env, x).kind = "Ok" /\ lookup(env', x) = Err(UndefinedRead(x))) =>
                      \/ Stepping /\ CurStmt = Local(PatIdent(x), NoInit)
                      \/ C19_CallerWrites
      ]_vars

\* let a; has run in a later call on an environment where a was 1 and b was
\* &a: a is still bound, now to the sentinel, and b is as it was.
C19_Witness ==
    /\ entry = "eval_block"
    /\ block = <<Local(PatIdent("a"), NoInit)>>
    /\ env0 = [a |-> Lit(1), b |-> Ref("a")]
    /\ status = "running"
    /\ pc = 2
    /\ env = [a |-> Undefined, b |-> Ref("a")]

\* A failing statement in a later call has left all three names bound.
C19_WitnessFailed ==
    /\ entry = "eval_block"
    /\ status = "returned"
    /\ res.kind = "Err"
    /\ DOMAIN env0 = Places
    /\ DOMAIN env = Places

====
